---------------------------- MODULE Spec2Model ----------------------------
(***************************************************************************)
(* A model of hotcorners (src/src/main.rs): the main thread (startup, the  *)
(* message loop and, inside it, the low-level mouse hook callback) and the *)
(* activation worker thread, which share one atomic flag and a park token. *)
(***************************************************************************)
EXTENDS Integers, Sequences, FiniteSets, TLC

(* ------------------------------ bounds --------------------------------- *)
\* At most this many activation signals are raised in one behaviour.
MaxSignals == 2
\* Time advances in steps of this many milliseconds while the worker sleeps.
TickMs == 100

(* ------------------------- program constants --------------------------- *)
WM_MOUSEMOVE == 512
WM_HOTKEY == 786
VK_LWIN == 91
VK_TAB == 9
KEYEVENTF_KEYUP == 2
DEFAULT_DELAY == 100

\* main.rs:42-47
HOT_CORNER == [left |-> 0, top |-> 0, right |-> 20, bottom |-> 20]

\* The chord with its two releases in the wrong order.
HOT_CORNER_INPUT_Swapped ==
    << [wVk |-> VK_LWIN, dwFlags |-> 0],
       [wVk |-> VK_TAB,  dwFlags |-> 0],
       [wVk |-> VK_LWIN, dwFlags |-> KEYEVENTF_KEYUP],
       [wVk |-> VK_TAB,  dwFlags |-> KEYEVENTF_KEYUP] >>

\* main.rs:50-99
HOT_CORNER_INPUT ==
    << [wVk |-> VK_LWIN, dwFlags |-> 0],
       [wVk |-> VK_TAB,  dwFlags |-> 0],
       [wVk |-> VK_TAB,  dwFlags |-> KEYEVENTF_KEYUP],
       [wVk |-> VK_LWIN, dwFlags |-> KEYEVENTF_KEYUP] >>

\* Win32 PtInRect: inclusive on left/top, exclusive on right/bottom.
PtInRect(rc, pt) ==
    /\ rc.left <= pt[1] /\ pt[1] < rc.right
    /\ rc.top  <= pt[2] /\ pt[2] < rc.bottom

\* keydown testing the low (toggle) bit instead of the high bit.
keydown_LowBit(key) == key % 2 = 1

\* main.rs:240-242, on a byte 0..255: (key & 0x80) != 0
keydown(key) == (key \div 128) % 2 = 1

(* ------------------------- input domains ------------------------------- *)
\* Sample cursor positions: two inside HOT_CORNER (its top-left corner and its
\* last pixel) and one just outside it (on the excluded right edge).
Points ==
    { <<HOT_CORNER.left, HOT_CORNER.top>>,
      <<HOT_CORNER.right - 1, HOT_CORNER.bottom - 1>>,
      <<HOT_CORNER.right, HOT_CORNER.bottom - 1>> }

NCodes == {-1, 0}
\* A movement notification and one that is none (the next message number).
WParams == {WM_MOUSEMOVE, WM_MOUSEMOVE + 1}
\* The hotkey message and one that is not it.
Messages == {WM_HOTKEY, WM_HOTKEY + 1}
\* What GetMessageW returns: an error, WM_QUIT, a message.
GetMessageResults == {-1, 0, 1}

\* The five keys the callback looks at in the GetKeyboardState buffer.
ModKeys == {"VK_SHIFT", "VK_CONTROL", "VK_MENU", "VK_LWIN", "VK_RWIN"}
\* A key byte: up, toggled only (low bit), down (high bit).
KeyUp == 0
KeyDown == 128
KeyToggled == KeyUp + 1
AllUp == [k \in ModKeys |-> KeyUp]
\* Sample keyboards: all keys up, one key toggled, or exactly one key down.
Keyboards ==
    {AllUp, [AllUp EXCEPT !["VK_SHIFT"] = KeyToggled]}
    \cup {[AllUp EXCEPT ![d] = KeyDown] : d \in ModKeys}
\* What the callback's queries answer: lb and rb are GetKeyState(VK_LBUTTON)
\* < 0 and GetKeyState(VK_RBUTTON) < 0, kbOk is whether GetKeyboardState
\* succeeded and ks the buffer it filled (left zeroed when it failed).
Clear == [lb |-> FALSE, rb |-> FALSE, kbOk |-> TRUE, ks |-> AllUp]
GuardInputs ==
    {[Clear EXCEPT !.ks = k] : k \in Keyboards}
    \cup {[Clear EXCEPT !.lb = TRUE], [Clear EXCEPT !.rb = TRUE],
          [Clear EXCEPT !.kbOk = FALSE]}

\* config.toml as main finds it: absent, not parseable, or parsed into a
\* Config whose delay (config.rs:5, an Option) is << >> or <<milliseconds>>.
ConfigDelays == {250}
ConfigFiles ==
    {[state |-> s, delay |-> << >>] : s \in {"missing", "malformed", "parsed"}}
    \cup {[state |-> "parsed", delay |-> <<d>>] : d \in ConfigDelays}

VARIABLES
    mainPc,       \* where the main thread is
    exitCode,     \* << >> while running, <<code>> once the process ended
    hooked,       \* the WH_MOUSE_LL hook is registered
    hotkey,       \* the exit hotkey is registered
    msg,          \* main's MSG.message (0: MSG::default())
    dispatched,   \* the message handed to DispatchMessageW last (0: none)
    HOT_DELAY,    \* static mut HOT_DELAY, milliseconds
    config,       \* main's config.delay once the file is parsed: << >> is None
    flag,         \* HOT_CORNER_THREAD_FLAG
    token,        \* the worker thread's park token
    STILL_HOT,    \* static mut STILL_HOT
    cursor,       \* the cursor position the platform reports
    hpc,          \* the hook callback: "idle", or "unpark" after the store
    evt,          \* the arguments of the callback invocation in progress
    fwdExact,     \* CallNextHookEx calls of the last invocation with its own arguments
    fwdOther,     \* CallNextHookEx calls of the last invocation with other arguments
    wpc,          \* where the worker thread is
    sleep_delay,  \* hot_corner_fn's sleep_delay
    slept,        \* milliseconds slept so far in the current thread::sleep
    point,        \* hot_corner_fn's point after GetCursorPos, << >> if not set
    signals,      \* number of times the callback stored true and unparked
    visitSignals, \* the same, since the last movement event outside the region
    lastBranch,   \* the branch the last callback invocation took
    buttonBlocked,\* a pressed button held back an entry since the last outside event
    outsideSeen,  \* an outside movement event came between raise and end of dwell
    kbFailed,     \* the last invocation raised after GetKeyboardState failed
    pending,      \* a raise no later worker run has started its sleep after
    injections,   \* number of SendInput calls
    actBatches,   \* the batches the current or last worker run gave to SendInput
    cooled,       \* the worker slept (a tick passed) since its last SendInput
    printed       \* the current or last worker run printed "Failed to send input"

vars == << mainPc, exitCode, hooked, hotkey, msg, dispatched, HOT_DELAY, config, flag,
           token, STILL_HOT, cursor, hpc, evt, fwdExact, fwdOther, wpc, sleep_delay, slept,
           point, signals, visitSignals, lastBranch, buttonBlocked, outsideSeen,
           kbFailed, pending,
           injections, actBatches, cooled, printed >>

mainVars == << mainPc, exitCode, hooked, hotkey, msg, dispatched, HOT_DELAY,
              config >>
hookVars == << STILL_HOT, hpc, evt, fwdExact, fwdOther, signals, visitSignals, lastBranch,
               buttonBlocked, outsideSeen, kbFailed, pending >>
workerVars == << wpc, sleep_delay, slept, point, injections, actBatches,
                 cooled, printed >>

Alive == exitCode = << >>

Init ==
    /\ mainPc = "start"
    /\ exitCode = << >>
    /\ hooked = FALSE
    /\ hotkey = FALSE
    /\ msg = 0
    /\ dispatched = 0
    /\ HOT_DELAY = DEFAULT_DELAY
    /\ config = << >>
    /\ flag = FALSE
    /\ token = FALSE
    /\ STILL_HOT = FALSE
    /\ cursor \in Points
    /\ hpc = "idle"
    /\ evt = << >>
    /\ fwdExact = 0
    /\ fwdOther = 0
    /\ wpc = "unspawned"
    /\ sleep_delay = 0
    /\ slept = 0
    /\ point = << >>
    /\ signals = 0
    /\ visitSignals = 0
    /\ lastBranch = "none"
    /\ buttonBlocked = FALSE
    /\ outsideSeen = FALSE
    /\ kbFailed = FALSE
    /\ pending = FALSE
    /\ injections = 0
    /\ actBatches = << >>
    /\ cooled = FALSE
    /\ printed = FALSE

(* ----------------------------- main thread ----------------------------- *)
\* A main that creates the flag true.
MainSpawn_FlagTrue ==
    /\ Alive /\ mainPc = "start"
    /\ mainPc' = "config"
    /\ wpc' = "load"
    /\ flag' = TRUE
    /\ UNCHANGED << exitCode, hooked, hotkey, msg, dispatched, HOT_DELAY, config,
                    token, cursor, sleep_delay, slept, point, injections,
                    actBatches, cooled, printed >>
    /\ UNCHANGED hookVars

\* main.rs:108-123: the flag is created false and the worker thread spawned.
MainSpawn ==
    /\ Alive /\ mainPc = "start"
    /\ mainPc' = "config"
    /\ wpc' = "load"
    /\ UNCHANGED << exitCode, hooked, hotkey, msg, dispatched, HOT_DELAY, config, flag,
                    token, cursor, sleep_delay, slept, point, injections,
                    actBatches, cooled, printed >>
    /\ UNCHANGED hookVars

\* main.rs:125-129: read and parse config.toml (either unwrap panics), then
\* overwrite HOT_DELAY when the file has a delay.
MainLoadConfig(file) ==
    /\ Alive /\ mainPc = "config"
    /\ IF file.state # "parsed"
       THEN /\ mainPc' = "panicked"
            /\ exitCode' = << 101 >>
            /\ UNCHANGED << HOT_DELAY, config >>
       ELSE /\ mainPc' = "hook"
            /\ config' = file.delay
            /\ HOT_DELAY' = IF file.delay = << >> THEN HOT_DELAY ELSE file.delay[1]
            /\ UNCHANGED exitCode
    /\ UNCHANGED << hooked, hotkey, msg, dispatched, flag, token, cursor >>
    /\ UNCHANGED hookVars
    /\ UNCHANGED workerVars

\* main.rs:133-134: SetWindowsHookExW(...)?
MainSetHook(ok) ==
    /\ Alive /\ mainPc = "hook"
    /\ IF ok
       THEN /\ hooked' = TRUE
            /\ mainPc' = "hotkey"
            /\ UNCHANGED exitCode
       ELSE /\ mainPc' = "failed"
            /\ exitCode' = << 1 >>
            /\ UNCHANGED hooked
    /\ UNCHANGED << hotkey, msg, dispatched, HOT_DELAY, config, flag, token, cursor >>
    /\ UNCHANGED hookVars
    /\ UNCHANGED workerVars

\* main.rs:136-141: RegisterHotKey(...)?
MainRegisterHotKey(ok) ==
    /\ Alive /\ mainPc = "hotkey"
    /\ IF ok
       THEN /\ hotkey' = TRUE
            /\ mainPc' = "loop"
            /\ UNCHANGED exitCode
       ELSE /\ mainPc' = "failed"
            /\ exitCode' = << 1 >>
            /\ UNCHANGED hotkey
    /\ UNCHANGED << hooked, msg, dispatched, HOT_DELAY, config, flag, token, cursor >>
    /\ UNCHANGED hookVars
    /\ UNCHANGED workerVars

\* A loop without its break.
IsExitMessage_Never(m) == FALSE

\* main.rs:144: msg.message == WM_HOTKEY
IsExitMessage(m) == m = WM_HOTKEY

\* main.rs:143-149: one turn of the message loop. GetMessageW returns ret:
\* 0 for WM_QUIT, -1 for an error (msg is left as it was), and another
\* value after it has filled msg with the message m. The loop goes on for
\* every ret but 0 (BOOL::as_bool).
MainGetMessage(ret, m) ==
    LET got == IF ret = -1 THEN msg ELSE m IN
    /\ Alive /\ mainPc = "loop" /\ hpc = "idle"
    /\ IF ret = 0
       THEN /\ mainPc' = "unhook"
            /\ UNCHANGED << msg, dispatched >>
       ELSE /\ msg' = got
            /\ IF IsExitMessage(got)
               THEN /\ mainPc' = "unhook"
                    /\ UNCHANGED dispatched
               ELSE /\ dispatched' = got
                    /\ mainPc' = "loop"
    /\ UNCHANGED << exitCode, hooked, hotkey, HOT_DELAY, config, flag, token, cursor >>
    /\ UNCHANGED hookVars
    /\ UNCHANGED workerVars

\* main.rs:151-154: UnhookWindowsHookEx(mouse_hook)? and Ok(()).
MainUnhook(ok) ==
    /\ Alive /\ mainPc = "unhook"
    /\ IF ok
       THEN /\ hooked' = FALSE
            /\ mainPc' = "exited"
            /\ exitCode' = << 0 >>
       ELSE /\ mainPc' = "failed"
            /\ exitCode' = << 1 >>
            /\ UNCHANGED hooked
    /\ UNCHANGED << hotkey, msg, dispatched, HOT_DELAY, config, flag, token, cursor >>
    /\ UNCHANGED hookVars
    /\ UNCHANGED workerVars

\* The cursor moves while the hook delivers nothing to the callback (the main
\* thread is not inside GetMessageW).
CursorMoveUnhooked(pt) ==
    /\ Alive /\ mainPc # "loop"
    /\ cursor # pt
    /\ cursor' = pt
    /\ UNCHANGED mainVars
    /\ UNCHANGED << flag, token >>
    /\ UNCHANGED hookVars
    /\ UNCHANGED workerVars

(* --------------------------- the hook callback ------------------------- *)
\* main.rs:211-218: the key state is queried only by an invocation for a
\* movement event inside the region that finds STILL_HOT false; for every
\* other invocation one answer stands for all.
QueriedInputs(w_param, pt) ==
    IF w_param = WM_MOUSEMOVE /\ PtInRect(HOT_CORNER, pt) /\ ~STILL_HOT
    THEN GuardInputs ELSE {Clear}

\* The callback without its "was already hot" test (main.rs:206).
HookBranch_NoStillHot(w_param, pt, still_hot, g) ==
    IF w_param # WM_MOUSEMOVE THEN "nonmove"
    ELSE IF ~PtInRect(HOT_CORNER, pt) THEN "outside"
    ELSE IF g.lb \/ g.rb THEN "button"
    ELSE IF g.kbOk /\ (\E k \in ModKeys : keydown(g.ks[k])) THEN "modifier"
    ELSE "activate"

\* The callback testing the primary button only (main.rs:211).
HookBranch_LeftOnly(w_param, pt, still_hot, g) ==
    IF w_param # WM_MOUSEMOVE THEN "nonmove"
    ELSE IF ~PtInRect(HOT_CORNER, pt) THEN "outside"
    ELSE IF still_hot THEN "stillhot"
    ELSE IF g.lb THEN "button"
    ELSE IF g.kbOk /\ (\E k \in ModKeys : keydown(g.ks[k])) THEN "modifier"
    ELSE "activate"

\* The callback holding back an entry when GetKeyboardState fails.
HookBranch_KbFailureBlocks(w_param, pt, still_hot, g) ==
    IF w_param # WM_MOUSEMOVE THEN "nonmove"
    ELSE IF ~PtInRect(HOT_CORNER, pt) THEN "outside"
    ELSE IF still_hot THEN "stillhot"
    ELSE IF g.lb \/ g.rb THEN "button"
    ELSE IF ~g.kbOk \/ (\E k \in ModKeys : keydown(g.ks[k])) THEN "modifier"
    ELSE "activate"

\* The callback without its test for a movement event (main.rs:194).
HookBranch_NoMoveTest(w_param, pt, still_hot, g) ==
    IF ~PtInRect(HOT_CORNER, pt) THEN "outside"
    ELSE IF still_hot THEN "stillhot"
    ELSE IF g.lb \/ g.rb THEN "button"
    ELSE IF g.kbOk /\ (\E k \in ModKeys : keydown(g.ks[k])) THEN "modifier"
    ELSE "activate"

\* main.rs:193-227: the branch mouse_hook_callback takes.
HookBranch(w_param, pt, still_hot, g) ==
    IF w_param # WM_MOUSEMOVE THEN "nonmove"
    ELSE IF ~PtInRect(HOT_CORNER, pt) THEN "outside"
    ELSE IF still_hot THEN "stillhot"
    ELSE IF g.lb \/ g.rb THEN "button"
    ELSE IF g.kbOk /\ ( \/ keydown(g.ks["VK_SHIFT"])
                        \/ keydown(g.ks["VK_CONTROL"])
                        \/ keydown(g.ks["VK_MENU"])
                        \/ keydown(g.ks["VK_LWIN"])
                        \/ keydown(g.ks["VK_RWIN"]) ) THEN "modifier"
    ELSE "activate"

\* The callback swallowing the event that activates the corner.
Forwards_Consume(branch, n_code, w_param, pt) ==
    IF branch = "activate" THEN << >>
    ELSE << [n_code |-> n_code, w_param |-> w_param, pt |-> pt] >>

\* main.rs:196,202,207,213,225,234: the CallNextHookEx calls the callback
\* makes on a branch, each with the arguments it passes on.
Forwards(branch, n_code, w_param, pt) ==
    << [n_code |-> n_code, w_param |-> w_param, pt |-> pt] >>

\* The number of calls in f whose arguments are (not) those of e.
CountExact(f, e) == Cardinality({i \in DOMAIN f : f[i] = e})
CountOther(f, e) == Cardinality({i \in DOMAIN f : f[i] # e})

\* main.rs:188-230: an invocation of mouse_hook_callback up to its return or,
\* on the qualifying branch, up to and including flag.store(true). The
\* platform moves the cursor to a movement event's position once the
\* callback has passed the event on.
HookCall(n_code, w_param, pt, g) ==
    LET branch == HookBranch(w_param, pt, STILL_HOT, g)
        e == [n_code |-> n_code, w_param |-> w_param, pt |-> pt]
        f == Forwards(branch, n_code, w_param, pt)
    IN
    /\ Alive /\ mainPc = "loop" /\ hooked /\ hpc = "idle"
    /\ branch = "activate" => signals < MaxSignals
    /\ lastBranch' = branch
    /\ IF branch = "activate"
       THEN /\ flag' = TRUE
            /\ hpc' = "unpark"
            /\ evt' = e
            /\ signals' = signals + 1
            /\ visitSignals' = visitSignals + 1
            /\ outsideSeen' = IF flag THEN outsideSeen ELSE FALSE
            /\ kbFailed' = ~g.kbOk
            /\ pending' = TRUE
            /\ UNCHANGED << STILL_HOT, cursor, buttonBlocked, fwdExact, fwdOther >>
       ELSE /\ fwdExact' = CountExact(f, e)
            /\ fwdOther' = CountOther(f, e)
            /\ cursor' = IF w_param = WM_MOUSEMOVE THEN pt ELSE cursor
            /\ STILL_HOT' = IF branch = "outside" THEN FALSE ELSE STILL_HOT
            /\ visitSignals' = IF branch = "outside" THEN 0 ELSE visitSignals
            /\ buttonBlocked' = CASE branch = "outside" -> FALSE
                                  [] branch = "button" -> TRUE
                                  [] OTHER -> buttonBlocked
            /\ outsideSeen' =
                   IF branch = "outside" /\ flag
                      /\ wpc \in {"load", "park", "delay", "sleep"}
                   THEN TRUE ELSE outsideSeen
            /\ kbFailed' = FALSE
            /\ UNCHANGED << flag, hpc, evt, signals, pending >>
    /\ UNCHANGED mainVars
    /\ UNCHANGED token
    /\ UNCHANGED workerVars

\* A callback that waits until the worker is parked before it unparks it.
HookUnpark_WaitsForWorker ==
    LET f == Forwards("activate", evt.n_code, evt.w_param, evt.pt) IN
    /\ Alive /\ mainPc = "loop" /\ hpc = "unpark"
    /\ wpc = "park"
    /\ token' = TRUE
    /\ STILL_HOT' = TRUE
    /\ fwdExact' = CountExact(f, evt)
    /\ fwdOther' = CountOther(f, evt)
    /\ cursor' = evt.pt
    /\ evt' = << >>
    /\ hpc' = "idle"
    /\ UNCHANGED mainVars
    /\ UNCHANGED << flag, signals, visitSignals, lastBranch, buttonBlocked,
                    outsideSeen, kbFailed, pending >>
    /\ UNCHANGED workerVars

\* A callback that stores true but does not unpark the worker.
HookUnpark_NoToken ==
    LET f == Forwards("activate", evt.n_code, evt.w_param, evt.pt) IN
    /\ Alive /\ mainPc = "loop" /\ hpc = "unpark"
    /\ token' = token
    /\ STILL_HOT' = TRUE
    /\ fwdExact' = CountExact(f, evt)
    /\ fwdOther' = CountOther(f, evt)
    /\ cursor' = evt.pt
    /\ evt' = << >>
    /\ hpc' = "idle"
    /\ UNCHANGED mainVars
    /\ UNCHANGED << flag, signals, visitSignals, lastBranch, buttonBlocked,
                    outsideSeen, kbFailed, pending >>
    /\ UNCHANGED workerVars

\* main.rs:231-234: unpark the worker, STILL_HOT = true, pass the event on.
HookUnpark ==
    LET f == Forwards("activate", evt.n_code, evt.w_param, evt.pt) IN
    /\ Alive /\ mainPc = "loop" /\ hpc = "unpark"
    /\ token' = TRUE
    /\ STILL_HOT' = TRUE
    /\ fwdExact' = CountExact(f, evt)
    /\ fwdOther' = CountOther(f, evt)
    /\ cursor' = evt.pt
    /\ evt' = << >>
    /\ hpc' = "idle"
    /\ UNCHANGED mainVars
    /\ UNCHANGED << flag, signals, visitSignals, lastBranch, buttonBlocked,
                    outsideSeen, kbFailed, pending >>
    /\ UNCHANGED workerVars

(* ---------------------------- worker thread ---------------------------- *)
\* main.rs:116: flag.load(Acquire), the condition of the while loop.
WorkerLoad ==
    /\ Alive /\ wpc = "load"
    /\ wpc' = IF flag THEN "delay" ELSE "park"
    /\ UNCHANGED << sleep_delay, slept, point, injections, actBatches, cooled,
                    printed >>
    /\ UNCHANGED mainVars
    /\ UNCHANGED << flag, token, cursor >>
    /\ UNCHANGED hookVars

\* main.rs:117: thread::park() returns, consuming the token when there is
\* one; it may also return spuriously. Without either it blocks.
WorkerPark(spurious) ==
    /\ Alive /\ wpc = "park"
    /\ token \/ spurious
    /\ token' = FALSE
    /\ wpc' = "load"
    /\ UNCHANGED << sleep_delay, slept, point, injections, actBatches, cooled,
                    printed >>
    /\ UNCHANGED mainVars
    /\ UNCHANGED << flag, cursor >>
    /\ UNCHANGED hookVars

\* A worker that always sleeps for the default delay.
WorkerReadDelay_Default ==
    /\ Alive /\ wpc = "delay"
    /\ sleep_delay' = DEFAULT_DELAY
    /\ slept' = 0
    /\ point' = << >>
    /\ actBatches' = << >>
    /\ printed' = FALSE
    /\ wpc' = "sleep"
    /\ pending' = FALSE
    /\ UNCHANGED << injections, cooled >>
    /\ UNCHANGED mainVars
    /\ UNCHANGED << flag, token, cursor >>
    /\ UNCHANGED << STILL_HOT, hpc, evt, fwdExact, fwdOther, signals, visitSignals,
                    lastBranch, buttonBlocked, outsideSeen, kbFailed >>

\* main.rs:164-167: hot_corner_fn starts: point = POINT::default() is not
\* read before GetCursorPos sets it; sleep_delay = HOT_DELAY; sleep begins.
WorkerReadDelay ==
    /\ Alive /\ wpc = "delay"
    /\ sleep_delay' = HOT_DELAY
    /\ slept' = 0
    /\ point' = << >>
    /\ actBatches' = << >>
    /\ printed' = FALSE
    /\ wpc' = "sleep"
    /\ pending' = FALSE
    /\ UNCHANGED << injections, cooled >>
    /\ UNCHANGED mainVars
    /\ UNCHANGED << flag, token, cursor >>
    /\ UNCHANGED << STILL_HOT, hpc, evt, fwdExact, fwdOther, signals, visitSignals,
                    lastBranch, buttonBlocked, outsideSeen, kbFailed >>

\* main.rs:167: time passes while the worker is inside thread::sleep.
Tick ==
    /\ Alive /\ wpc = "sleep"
    /\ slept < sleep_delay
    /\ slept' = slept + TickMs
    /\ cooled' = TRUE
    /\ UNCHANGED << wpc, sleep_delay, point, injections, actBatches, printed >>
    /\ UNCHANGED mainVars
    /\ UNCHANGED << flag, token, cursor >>
    /\ UNCHANGED hookVars

\* main.rs:167: thread::sleep(d) is over once t >= d milliseconds have passed.
SleepOver(t, d) == t >= d

\* main.rs:167: thread::sleep returns once sleep_delay has passed.
WorkerWake ==
    /\ Alive /\ wpc = "sleep"
    /\ SleepOver(slept, sleep_delay)
    /\ wpc' = "getpos"
    /\ UNCHANGED << sleep_delay, slept, point, injections, actBatches, cooled,
                    printed >>
    /\ UNCHANGED mainVars
    /\ UNCHANGED << flag, token, cursor >>
    /\ UNCHANGED hookVars

\* The worker sending whenever the position query succeeded.
ShouldSend_NoRecheck(pt) == TRUE

\* main.rs:172: SendInput is called only when PtInRect(&HOT_CORNER, point).
ShouldSend(pt) == PtInRect(HOT_CORNER, pt)

\* main.rs:171-172: GetCursorPos(&mut point) and, when it succeeded, the
\* PtInRect test that decides whether SendInput is called.
WorkerGetCursorPos(ok) ==
    /\ Alive /\ wpc = "getpos"
    /\ IF ok
       THEN /\ point' = cursor
            /\ wpc' = IF ShouldSend(cursor) THEN "send" ELSE "store"
       ELSE /\ wpc' = "store"
            /\ UNCHANGED point
    /\ UNCHANGED << sleep_delay, slept, injections, actBatches, cooled, printed >>
    /\ UNCHANGED mainVars
    /\ UNCHANGED << flag, token, cursor >>
    /\ UNCHANGED hookVars

\* A worker that calls SendInput again when not all events were accepted.
WorkerSendInput_Retry(accepted) ==
    /\ Alive /\ wpc = "send"
    /\ injections' = injections + 1
    /\ actBatches' = Append(actBatches, HOT_CORNER_INPUT)
    /\ cooled' = FALSE
    /\ printed' = IF accepted # Len(HOT_CORNER_INPUT) THEN TRUE ELSE printed
    /\ wpc' = IF accepted # Len(HOT_CORNER_INPUT) THEN "send" ELSE "store"
    /\ UNCHANGED << sleep_delay, slept, point >>
    /\ UNCHANGED mainVars
    /\ UNCHANGED << flag, token, cursor >>
    /\ UNCHANGED hookVars

\* main.rs:174-179: SendInput(&HOT_CORNER_INPUT, ..) returns the number of
\* events the platform accepted; any other number than 4 is only printed.
WorkerSendInput(accepted) ==
    /\ Alive /\ wpc = "send"
    /\ injections' = injections + 1
    /\ actBatches' = Append(actBatches, HOT_CORNER_INPUT)
    /\ cooled' = FALSE
    /\ printed' = IF accepted # Len(HOT_CORNER_INPUT) THEN TRUE ELSE printed
    /\ wpc' = "store"
    /\ UNCHANGED << sleep_delay, slept, point >>
    /\ UNCHANGED mainVars
    /\ UNCHANGED << flag, token, cursor >>
    /\ UNCHANGED hookVars

\* A worker that returns to the top of its loop without clearing the flag.
WorkerStore_NoClear ==
    /\ Alive /\ wpc = "store"
    /\ flag' = flag
    /\ wpc' = "load"
    /\ UNCHANGED << sleep_delay, slept, point, injections, actBatches, cooled,
                    printed >>
    /\ UNCHANGED mainVars
    /\ UNCHANGED << token, cursor >>
    /\ UNCHANGED hookVars

\* main.rs:120: flag.store(false, Release), then back to the top of the loop.
WorkerStore ==
    /\ Alive /\ wpc = "store"
    /\ flag' = FALSE
    /\ wpc' = "load"
    /\ UNCHANGED << sleep_delay, slept, point, injections, actBatches, cooled,
                    printed >>
    /\ UNCHANGED mainVars
    /\ UNCHANGED << token, cursor >>
    /\ UNCHANGED hookVars

(* ----------------------------- specification --------------------------- *)
Next ==
    \/ MainSpawn
    \/ \E file \in ConfigFiles : MainLoadConfig(file)
    \/ \E ok \in BOOLEAN : MainSetHook(ok)
    \/ \E ok \in BOOLEAN : MainRegisterHotKey(ok)
    \/ \E ret \in GetMessageResults, m \in Messages : MainGetMessage(ret, m)
    \/ \E ok \in BOOLEAN : MainUnhook(ok)
    \/ \E pt \in Points : CursorMoveUnhooked(pt)
    \/ \E n_code \in NCodes, w_param \in WParams, pt \in Points :
          \E g \in QueriedInputs(w_param, pt) : HookCall(n_code, w_param, pt, g)
    \/ HookUnpark
    \/ WorkerLoad
    \/ \E spurious \in BOOLEAN : WorkerPark(spurious)
    \/ WorkerReadDelay
    \/ Tick
    \/ WorkerWake
    \/ \E ok \in BOOLEAN : WorkerGetCursorPos(ok)
    \/ \E accepted \in 0..Len(HOT_CORNER_INPUT) : WorkerSendInput(accepted)
    \/ WorkerStore

Spec == Init /\ [][Next]_vars

(* ------------------------------- claims -------------------------------- *)
Inside(pt) == PtInRect(HOT_CORNER, pt)

\* C1: between two movement events outside the region the callback raises
\* the activation signal at most once, and the edge state is Hot exactly
\* from the unpark of that one raise on: however many movement events inside
\* the region follow an entry, none of them raises the signal again.
C1_OneSignalPerVisit ==
    /\ visitSignals <= 1
    /\ STILL_HOT => visitSignals = 1
    /\ (visitSignals = 1 /\ hpc = "idle") => STILL_HOT

\* C1 witness: the signal was raised once and a further movement event
\* inside the region arrived while the state was Hot.
C1_Witness == lastBranch = "stillhot" /\ visitSignals = 1 /\ signals = 1

\* C2: a worker run whose position query after the dwell sleep returned a
\* point outside HOT_CORNER gives nothing to SendInput.
C2_NoInjectionWhenOutside ==
    (point # << >> /\ ~Inside(point)) => (actBatches = << >> /\ wpc # "send")

\* C2 witness: the corner was entered without guards, the cursor left it
\* during the dwell, and the run has ended without an injection.
C2_Witness ==
    /\ signals = 1 /\ injections = 0 /\ wpc = "load" /\ ~flag
    /\ point # << >> /\ ~Inside(point)

\* C3: a worker run whose position query after the dwell sleep returned a
\* point inside HOT_CORNER gives SendInput exactly one batch: key-down LWIN,
\* key-down TAB, key-up TAB, key-up LWIN.
C3_ExactlyOneChord ==
    (point # << >> /\ Inside(point) /\ wpc # "send") =>
        /\ Len(actBatches) = 1
        /\ Len(actBatches[1]) = 4
        /\ actBatches[1][1] = [wVk |-> VK_LWIN, dwFlags |-> 0]
        /\ actBatches[1][2] = [wVk |-> VK_TAB, dwFlags |-> 0]
        /\ actBatches[1][3] = [wVk |-> VK_TAB, dwFlags |-> KEYEVENTF_KEYUP]
        /\ actBatches[1][4] = [wVk |-> VK_LWIN, dwFlags |-> KEYEVENTF_KEYUP]

\* C3 witness: a run has ended after the cursor was found inside the region.
C3_Witness ==
    /\ wpc = "load" /\ ~flag /\ point # << >> /\ Inside(point)
    /\ injections = 1

\* C4: the worker clears the flag after an injection only once it has slept
\* a cool-down since that injection, and no raise made before any such
\* sleep has passed starts a new activation (it finds the flag still set).
C4_CoolDownBeforeClear ==
    [][ /\ (wpc = "store" /\ wpc' = "load" /\ actBatches # << >>) => cooled
        /\ (signals' # signals /\ injections > 0 /\ ~cooled) => flag ]_vars

\* C5: no run injects when a movement event outside the region was observed
\* between the raise of its signal and the end of its dwell sleep.
C5_InsideForWholeDwell ==
    (wpc = "store" /\ actBatches # << >>) => ~outsideSeen

\* The callback's queries report a mouse button, or a tracked modifier key,
\* as pressed (the high bit of the key's byte is set).
ButtonPressed(g) == g.lb \/ g.rb
ModifierPressed(g) == g.kbOk /\ \E k \in ModKeys : g.ks[k] >= KeyDown

\* A step of the callback that leaves the signal and the edge state alone.
NoActivation ==
    /\ signals' = signals /\ flag' = flag /\ token' = token
    /\ hpc' = "idle" /\ STILL_HOT' = FALSE

\* A step of the callback that stores true into the flag and goes on to
\* the unpark.
Activation == signals' = signals + 1 /\ flag' /\ hpc' = "unpark"

\* The callback can be invoked for a movement event inside the region.
ColdInLoop == Alive /\ mainPc = "loop" /\ hpc = "idle" /\ ~STILL_HOT

\* C6: in state Cold, an invocation for a movement event inside the region
\* with a mouse button pressed runs, raises no signal and leaves the state
\* Cold; one with no button and no modifier pressed stores true into the
\* flag, and its second half unparks the worker and sets the state Hot.
C6_ButtonGuard ==
    /\ ColdInLoop =>
          \A n \in NCodes, pt \in {q \in Points : Inside(q)}, g \in GuardInputs :
              /\ ButtonPressed(g) =>
                    /\ ENABLED HookCall(n, WM_MOUSEMOVE, pt, g)
                    /\ ~ENABLED (HookCall(n, WM_MOUSEMOVE, pt, g) /\ ~NoActivation)
              /\ (~ButtonPressed(g) /\ ~ModifierPressed(g) /\ signals < MaxSignals) =>
                    /\ ENABLED HookCall(n, WM_MOUSEMOVE, pt, g)
                    /\ ~ENABLED (HookCall(n, WM_MOUSEMOVE, pt, g) /\ ~Activation)
    /\ (Alive /\ mainPc = "loop" /\ hpc = "unpark") =>
          /\ ENABLED HookUnpark
          /\ ~ENABLED (HookUnpark /\ ~(STILL_HOT' /\ token' /\ hpc' = "idle"))

\* C6 witness: within one visit of the region an entry was held back by a
\* pressed button and a later movement event raised the signal.
C6_Witness == buttonBlocked /\ STILL_HOT /\ visitSignals = 1

\* C7: in state Cold, an invocation for a movement event inside the region
\* while Shift, Ctrl, Alt, the left or the right OS key is reported pressed
\* runs, raises no signal and leaves the state Cold.
C7_ModifierGuard ==
    ColdInLoop =>
        \A n \in NCodes, pt \in {q \in Points : Inside(q)},
           g \in {h \in GuardInputs : ModifierPressed(h)} :
            /\ ENABLED HookCall(n, WM_MOUSEMOVE, pt, g)
            /\ ~ENABLED (HookCall(n, WM_MOUSEMOVE, pt, g) /\ ~NoActivation)

\* C7 witness: the first entry into the region came with a modifier pressed.
C7_Witness ==
    /\ lastBranch = "modifier" /\ Inside(cursor)
    /\ ~STILL_HOT /\ signals = 0 /\ ~flag

\* C8: every completed invocation of the callback has called CallNextHookEx
\* exactly once, with the n_code, w_param and l_param it was given.
C8_AlwaysForwards ==
    (hpc = "idle" /\ lastBranch # "none") => (fwdExact = 1 /\ fwdOther = 0)

\* C8 witness: the invocation that raised the signal has returned.
C8_Witness ==
    lastBranch = "activate" /\ hpc = "idle" /\ fwdExact = 1 /\ fwdOther = 0

\* C9: whatever the worker is doing, the callback can take its next step: a
\* new invocation can start and run for every input, and an invocation that
\* has stored the flag can unpark and return.
C9_HookNeverBlocks ==
    (Alive /\ mainPc = "loop") =>
        /\ hpc = "unpark" => ENABLED HookUnpark
        /\ hpc = "idle" =>
              \A n \in NCodes, w \in WParams, pt \in Points :
                  \A g \in QueriedInputs(w, pt) :
                      (HookBranch(w, pt, STILL_HOT, g) = "activate"
                           => signals < MaxSignals)
                          => ENABLED HookCall(n, w, pt, g)

\* C9 witness: the callback is between its store and its unpark while the
\* worker is about to call SendInput.
C9_Witness == Alive /\ mainPc = "loop" /\ hpc = "unpark" /\ wpc = "send"

\* C10 (as claimed): the loop is left only with WM_HOTKEY in msg, and once
\* WM_HOTKEY was received the process ends with the hook unregistered and
\* exit code 0.
C10_OnlyHotkeyEndsLoop ==
    [][ /\ (mainPc = "loop" /\ mainPc' # "loop") => msg' = WM_HOTKEY
        /\ (msg = WM_HOTKEY /\ Alive /\ ~Alive') =>
              (exitCode' = << 0 >> /\ ~hooked') ]_vars

\* C10 (amended): a turn of the loop in which GetMessageW returned non-zero
\* and msg.message is not WM_HOTKEY dispatches msg and stays in the loop; the
\* loop is left, without a dispatch, on WM_HOTKEY and also when GetMessageW
\* returns 0 (WM_QUIT); after the loop main ends with code 0 and the hook
\* unregistered when UnhookWindowsHookEx succeeds, and with an error and
\* the hook still registered when it fails.
C10_LoopExit ==
    [][ /\ \A ret \in GetMessageResults, m \in Messages :
              MainGetMessage(ret, m) =>
                  LET got == IF ret = -1 THEN msg ELSE m IN
                  IF ret # 0 /\ got # WM_HOTKEY
                  THEN mainPc' = "loop" /\ dispatched' = got /\ msg' = got
                  ELSE mainPc' = "unhook" /\ dispatched' = dispatched
        /\ mainPc' = "unhook" => mainPc \in {"loop", "unhook"}
        /\ \A ok \in BOOLEAN : MainUnhook(ok) =>
              IF ok THEN exitCode' = << 0 >> /\ ~hooked'
              ELSE exitCode' = << 1 >> /\ hooked' ]_vars

\* C10 witness: the process ended with code 0 after a loop that dispatched a
\* message and was left without WM_HOTKEY ever arriving.
C10_Witness ==
    /\ mainPc = "exited" /\ exitCode = << 0 >> /\ ~hooked
    /\ msg = WM_HOTKEY + 1 /\ dispatched = WM_HOTKEY + 1


\* C11: when a registration at startup fails (SetWindowsHookExW or
\* RegisterHotKey), main returns an error without having entered the message
\* loop, and no hook is left registered when it returns.
C11_StartupFailureLeavesNoHook ==
    (mainPc = "failed" /\ ~hotkey) =>
        (exitCode = << 1 >> /\ msg = 0 /\ dispatched = 0 /\ ~hooked)

\* The delay the parsed configuration asks for: its delay, else the default.
ConfiguredDelay == IF config = << >> THEN DEFAULT_DELAY ELSE config[1]

\* C12: the worker sleeps for the configured delay, or for the default of 100
\* ms when the configuration has no delay; HOT_DELAY holds that value from
\* the moment the configuration is applied and never changes afterwards.
C12_SleepsConfiguredDelay ==
    /\ mainPc \notin {"start", "config"} => HOT_DELAY = ConfiguredDelay
    /\ wpc \in {"sleep", "getpos", "send", "store"} => sleep_delay = ConfiguredDelay
    /\ wpc \in {"getpos", "send", "store"} =>
           (slept >= ConfiguredDelay /\ slept < ConfiguredDelay + TickMs)

C12_Witness ==
    /\ wpc = "getpos"
    /\ config = << 250 >>
    /\ sleep_delay = 250
    /\ slept >= 250

\* C13: whenever the callback stores true into the flag, the flag is false
\* at that moment.
C13_RaiseOnlyWhenClear == [][signals' # signals => ~flag]_vars

\* C14: the worker's flag.store(false) never erases a raise that no dwell
\* sleep has begun after.
C14_NoRaiseErased == [][(flag /\ ~flag') => ~pending]_vars


\* One step of the worker thread (main.rs:113-122, 163-182); park() is taken
\* without a spurious return, and time passes while the worker sleeps.
WorkerStep ==
    \/ WorkerLoad
    \/ WorkerPark(FALSE)
    \/ WorkerReadDelay
    \/ Tick
    \/ WorkerWake
    \/ \E ok \in BOOLEAN : WorkerGetCursorPos(ok)
    \/ \E accepted \in 0..Len(HOT_CORNER_INPUT) : WorkerSendInput(accepted)
    \/ WorkerStore

\* The program with a worker thread that is scheduled fairly and a callback
\* that, once it has stored true, goes on to unpark and return.
FairSpec == Spec /\ WF_vars(WorkerStep) /\ WF_vars(HookUnpark)

C16_KeyboardFailureActivates ==
    /\ (ColdInLoop /\ signals < MaxSignals) =>
          \A n \in NCodes, pt \in {q \in Points : Inside(q)},
             g \in {h \in GuardInputs : ~h.kbOk /\ ~ButtonPressed(h)} :
              /\ ENABLED HookCall(n, WM_MOUSEMOVE, pt, g)
              /\ ~ENABLED (HookCall(n, WM_MOUSEMOVE, pt, g)
                             /\ ~(Activation /\ kbFailed'))
    /\ (Alive /\ mainPc = "loop" /\ hpc = "unpark" /\ kbFailed) =>
          /\ ENABLED HookUnpark
          /\ ~ENABLED (HookUnpark /\ ~(STILL_HOT' /\ token' /\ hpc' = "idle"
                                        /\ fwdExact' = 1 /\ fwdOther' = 0))
    /\ (hpc = "idle" /\ kbFailed) =>
          (lastBranch = "activate" /\ STILL_HOT /\ fwdExact = 1 /\ fwdOther = 0)

\* C16 witness: an invocation whose keyboard query failed has raised the
\* signal and returned.
C16_Witness ==
    /\ kbFailed /\ hpc = "idle"
    /\ STILL_HOT /\ flag /\ token
    /\ fwdExact = 1

\* C17: a worker run whose GetCursorPos failed injects nothing; a run calls
\* SendInput at most once whatever number of events was accepted; and after
\* either failure the worker goes on to store false and, loading false,
\* to park.
C17_WorkerAbsorbsFailures ==
    /\ Len(actBatches) <= 1
    /\ printed => Len(actBatches) = 1
    /\ (wpc = "store" /\ point = << >>) => actBatches = << >>
    /\ (Alive /\ wpc = "getpos") =>
          /\ ENABLED WorkerGetCursorPos(FALSE)
          /\ ~ENABLED (WorkerGetCursorPos(FALSE)
                         /\ ~(wpc' = "store" /\ injections' = injections))
    /\ (Alive /\ wpc = "send") =>
          \A accepted \in 0..Len(HOT_CORNER_INPUT) :
              /\ ENABLED WorkerSendInput(accepted)
              /\ ~ENABLED (WorkerSendInput(accepted) /\ wpc' # "store")
    /\ (Alive /\ wpc = "store") =>
          /\ ENABLED WorkerStore
          /\ ~ENABLED (WorkerStore /\ ~(~flag' /\ wpc' = "load"))
    /\ (Alive /\ wpc = "load" /\ ~flag) =>
          /\ ENABLED WorkerLoad
          /\ ~ENABLED (WorkerLoad /\ wpc' # "park")

\* C17 witness: after a run in which SendInput accepted fewer than 4 events
\* the worker is parked again with the flag false, and the callback can
\* raise the signal again.
C17_Witness ==
    /\ Alive /\ mainPc = "loop" /\ hpc = "idle"
    /\ wpc = "park" /\ ~flag
    /\ printed /\ Len(actBatches) = 1
    /\ ~STILL_HOT /\ signals < MaxSignals

\* C18: an invocation for a notification other than a movement event leaves
\* STILL_HOT, the flag and the park token as they are whatever position it
\* carries, and no step of the worker thread changes STILL_HOT.
C18_NonMovementAndWorkerFrame ==
    /\ (Alive /\ mainPc = "loop" /\ hpc = "idle") =>
          \A n \in NCodes, w \in WParams \ {WM_MOUSEMOVE}, pt \in Points :
              /\ ENABLED HookCall(n, w, pt, Clear)
              /\ ~ENABLED (HookCall(n, w, pt, Clear)
                             /\ ~(/\ STILL_HOT' = STILL_HOT
                                  /\ flag' = flag
                                  /\ token' = token
                                  /\ signals' = signals
                                  /\ hpc' = "idle"))
    /\ ~ENABLED ((WorkerStep \/ WorkerPark(TRUE)) /\ STILL_HOT' # STILL_HOT)

\* C18 witness: a notification other than a movement event was handled in
\* state Hot while the worker was in its dwell sleep.
C18_Witness ==
    /\ lastBranch = "nonmove" /\ hpc = "idle"
    /\ STILL_HOT /\ flag /\ wpc = "sleep"


\* The worker is inside hot_corner_fn or about to store false after it.
InRun == wpc \in {"delay", "sleep", "getpos", "send", "store"}

\* C19: SendInput is called only by the worker's send step and only while
\* the flag is true, the flag is true for the whole of a worker run, and the
\* number of SendInput calls never exceeds the number of raises.
C19_InjectionOnlyWhileRaised ==
    /\ [](injections <= signals /\ (InRun => flag))
    /\ [][injections' # injections =>
              (flag /\ wpc = "send" /\ wpc' = "store"
               /\ injections' = injections + 1)]_vars

\* C19 witness: every raise so far has led to an injection, the last one
\* just made with the flag still true.
C19_Witness ==
    /\ wpc = "store" /\ flag
    /\ injections > 0 /\ injections = signals
    /\ actBatches # << >>

\* C20: the worker reads HOT_DELAY only once main has applied the
\* configuration: a worker run, a true flag and a registered hook all occur
\* only after the configuration step, and the value read is the final one.
C20_DelayReadAfterConfig ==
    /\ (InRun \/ flag \/ hooked \/ signals > 0) => mainPc \notin {"start", "config", "hook"}
    /\ ENABLED WorkerReadDelay =>
          (mainPc \notin {"start", "config"} /\ HOT_DELAY = ConfiguredDelay)
    /\ ~ENABLED (WorkerReadDelay /\ sleep_delay' # ConfiguredDelay)

\* C20 witness: the worker, spawned before the configuration was loaded,
\* has just read the configured delay of 250 ms.
C20_Witness ==
    /\ wpc = "sleep" /\ slept = 0
    /\ config = << 250 >>
    /\ sleep_delay = 250

====
